---- MODULE Spec2Model ----
(***************************************************************************)
(* Model of the distributed-task-queue server: the jobs table (SQLite),    *)
(* the per-tenant rate limiter, the SubmitJob HTTP handler and the worker  *)
(* pool (LeaseJob, executeJob, UpdateJobStatus / UpdateJobForRetry).       *)
(*                                                                         *)
(* Time is a discrete clock `now`, in seconds, that advances in steps of   *)
(* TickSeconds: a lease of 30 s is still running one step after it was     *)
(* granted and has expired two steps after; the rate window of 60 s has    *)
(* elapsed three steps after the reset.                                    *)
(***************************************************************************)
EXTENDS Integers, Sequences, FiniteSets, TLC

VARIABLES
    now,              \* the wall clock (time.Now())
    jobs,             \* the jobs table, a sequence of rows in insertion order
    tenantTokens,     \* RateLimiter.tenantTokens, a map tenant -> tokens
    tenantLastReset,  \* RateLimiter.tenantLastReset, a map tenant -> time
    allowed,          \* history: tenant -> number of Allow calls that returned
                      \*   true since the tenant's last window reset
    rpc,              \* per HTTP handler goroutine: position inside SubmitJob
    rreq,             \* per handler: the decoded JobSubmitRequest
    resp,             \* per handler: the last response written
    wpc,              \* per worker: position inside processNextJob / LeaseJob
    wjob,             \* per worker: id of the job selected / leased (0: none)
    wretry,           \* per worker: RetryCount of its in-memory copy of the job
    wlease,           \* per worker: leaseUntil of the current cycle
    nreq,             \* history: number of requests received, up to MaxSubmits
    ctxDone,          \* the workers' context has been cancelled (ctx.Done())
    broadcasts        \* history: the number of Broadcast calls so far, modulo 2

vars == <<now, jobs, tenantTokens, tenantLastReset, allowed,
          rpc, rreq, resp, wpc, wjob, wretry, wlease, nreq, ctxDone, broadcasts>>

----------------------------------------------------------------------------
(* Bounds of the model *)

MaxTicks == 2
WindowTicks == 3
TickSeconds == 30
MaxJobs == 2
MaxSubmits == 2
QuotaJobs == 5
LiveJobs == 1
PoolJobs == 3
NumWorkers == 2
NumHandlers == 2

(* Program constants *)

LeaseDuration == 30
Minute == 60
maxJobsPerMin == 10
MaxConcurrent == 5
DefaultMaxRetries == 3

StatusPending == "pending"
StatusRunning == "running"
StatusDone == "done"
StatusFailed == "failed"

NULL == -1

RetryMsg == "Job failed - will retry"
DLQMsg == "Max retries exceeded - moved to DLQ"

Workers == 1..NumWorkers
Handlers == 1..NumHandlers

NoReq == [TenantID |-> "", Payload |-> "", IdempotencyKey |-> "", MaxRetries |-> 0]

----------------------------------------------------------------------------
(* The jobs table *)

JobIds == 1..Len(jobs)

\* nullString: the empty string is stored as SQL NULL
nullString(s) == IF s = "" THEN "NULL" ELSE s

\* the row InsertJob writes for the job SubmitJob builds
NewJob(id, r, maxRetries) ==
    [id |-> id, tenant_id |-> r.TenantID, payload |-> r.Payload,
     status |-> StatusPending, idempotency_key |-> nullString(r.IdempotencyKey),
     retry_count |-> 0, max_retries |-> maxRetries, created_at |-> now,
     leased_until |-> NULL, error_message |-> "NULL", trace_id |-> id]

\* SELECT COUNT( * ) FROM jobs WHERE tenant_id = ? AND status = 'running'
GetRunningJobsCount(tenantID) ==
    Cardinality({j \in JobIds : jobs[j].tenant_id = tenantID
                                /\ jobs[j].status = StatusRunning})

\* SELECT id FROM jobs WHERE idempotency_key = ?
JobsByIdempotencyKey(key) == {j \in JobIds : jobs[j].idempotency_key = key}

\* the WHERE clause of LeaseJob's SELECT, with its parameter `now`
EligibleAny(j, t) == TRUE
EligibleNoReclaim(j, t) ==
    \/ jobs[j].status = StatusPending
    \/ (jobs[j].status = StatusFailed /\ jobs[j].retry_count < jobs[j].max_retries)
Eligible(j, t) ==
    \/ jobs[j].status = StatusPending
    \/ (jobs[j].status = StatusRunning /\ jobs[j].leased_until # NULL
        /\ jobs[j].leased_until < t)
    \/ (jobs[j].status = StatusFailed /\ jobs[j].retry_count < jobs[j].max_retries)

EligibleJobs(t) == {j \in JobIds : Eligible(j, t)}

\* ORDER BY created_at ASC LIMIT 1: the rows the SELECT may return
FirstByNewest(S) == {j \in S : \A k \in S : jobs[j].created_at >= jobs[k].created_at}
FirstByCreatedAt(S) == {j \in S : \A k \in S : jobs[j].created_at <= jobs[k].created_at}

\* GetMetrics: the WHERE clauses of FailedJobs and DLQJobs, and the two counts
CountOf(status) == Cardinality({j \in JobIds : jobs[j].status = status})
TotalJobs == Len(jobs)
PendingJobs == CountOf(StatusPending)
RunningJobs == CountOf(StatusRunning)
CompletedJobs == CountOf(StatusDone)
IsFailedJobAny(j) == jobs[j].status = StatusFailed
IsFailedJob(j) ==
    jobs[j].status = StatusFailed /\ jobs[j].retry_count < jobs[j].max_retries
IsDLQJob(j) ==
    jobs[j].status = StatusFailed /\ jobs[j].retry_count >= jobs[j].max_retries
FailedJobs == Cardinality({j \in JobIds : IsFailedJob(j)})
DLQJobs == Cardinality({j \in JobIds : IsDLQJob(j)})

----------------------------------------------------------------------------
(* RateLimiter *)

TokensOf(m, t) == IF t \in DOMAIN m THEN m[t] ELSE 0

\* `!exists || now.Sub(lastReset) > time.Minute`
WindowElapsedOrEqual(t) ==
    t \notin DOMAIN tenantLastReset \/ now - tenantLastReset[t] >= Minute
WindowElapsed(t) ==
    t \notin DOMAIN tenantLastReset \/ now - tenantLastReset[t] > Minute

\* the tenant's tokens after the reset branch of Allow
TokensAfterReset(t) ==
    IF WindowElapsed(t) THEN maxJobsPerMin ELSE TokensOf(tenantTokens, t)

\* the value Allow returns
AllowAlways(t) == TRUE
AllowResult(t) == TokensAfterReset(t) > 0

KeepTokens(n) == n
ConsumeToken(n) == n - 1

\* Allow(tenantID), run under rl.mu: one atomic step
AllowShared(t) ==
    /\ tenantTokens' =
          IF WindowElapsed(t) \/ AllowResult(t)
          THEN [u \in DOMAIN tenantTokens \cup {t} |->
                   IF AllowResult(t) THEN ConsumeToken(TokensAfterReset(t))
                                     ELSE TokensAfterReset(t)]
          ELSE tenantTokens
    /\ tenantLastReset' =
          IF WindowElapsed(t) THEN (t :> now) @@ tenantLastReset
          ELSE tenantLastReset
    /\ allowed' =
          (t :> ((IF WindowElapsed(t) THEN 0 ELSE TokensOf(allowed, t))
                 + (IF AllowResult(t) THEN 1 ELSE 0))) @@ allowed
Allow(t) ==
    /\ tenantTokens' =
          IF WindowElapsed(t) \/ AllowResult(t)
          THEN (t :> (IF AllowResult(t) THEN ConsumeToken(TokensAfterReset(t))
                                        ELSE TokensAfterReset(t))) @@ tenantTokens
          ELSE tenantTokens
    /\ tenantLastReset' =
          IF WindowElapsed(t) THEN (t :> now) @@ tenantLastReset
          ELSE tenantLastReset
    /\ allowed' =
          (t :> ((IF WindowElapsed(t) THEN 0 ELSE TokensOf(allowed, t))
                 + (IF AllowResult(t) THEN 1 ELSE 0))) @@ allowed

----------------------------------------------------------------------------
(* SubmitJob: one HTTP handler goroutine per request *)

\* Manager.Broadcast(), called as s.wsManager.Broadcast() and as w.onUpdate()
BroadcastDropped(n) == n
Broadcast(n) == (n + 1) % 2

RespondNoReturn(h, code) ==
    /\ rpc' = [rpc EXCEPT ![h] = IF code = "quota_exceeded" THEN "idempotency" ELSE "idle"]
    /\ rreq' = [rreq EXCEPT ![h] = IF code = "quota_exceeded" THEN @ ELSE NoReq]
    /\ resp' = [resp EXCEPT ![h] = code]
\* write the response and return
Respond(h, code) ==
    /\ rpc' = [rpc EXCEPT ![h] = "idle"]
    /\ rreq' = [rreq EXCEPT ![h] = NoReq]
    /\ resp' = [resp EXCEPT ![h] = code]

\* decode, validate, rate gate
SubmitJob(h, T, P, K, M) ==
    /\ rpc[h] = "idle"
    /\ \E t \in T, p \in P, k \in K, m \in M :
          LET r == [TenantID |-> t, Payload |-> p, IdempotencyKey |-> k, MaxRetries |-> m]
          IN  IF t = "" \/ p = ""
              THEN /\ Respond(h, "bad_request")
                   /\ UNCHANGED <<tenantTokens, tenantLastReset, allowed>>
              ELSE /\ Allow(t)
                   /\ IF AllowResult(t)
                      THEN /\ rpc' = [rpc EXCEPT ![h] = "quota"]
                           /\ rreq' = [rreq EXCEPT ![h] = r]
                           /\ resp' = [resp EXCEPT ![h] = "none"]
                      ELSE Respond(h, "rate_limited")
    /\ nreq' = IF nreq < MaxSubmits THEN nreq + 1 ELSE nreq
    /\ UNCHANGED <<now, jobs, wpc, wjob, wretry, wlease, ctxDone, broadcasts>>

QuotaExceededStrict(count) == count > MaxConcurrent
QuotaExceeded(count) == count >= MaxConcurrent

\* concurrency gate: GetRunningJobsCount, then `runningCount >= 5`
CheckQuota(h, ok) ==
    /\ rpc[h] = "quota"
    /\ IF ~ok THEN Respond(h, "internal_error")
       ELSE IF QuotaExceeded(GetRunningJobsCount(rreq[h].TenantID))
       THEN Respond(h, "quota_exceeded")
       ELSE /\ rpc' = [rpc EXCEPT ![h] = "idempotency"]
            /\ UNCHANGED <<rreq, resp>>
    /\ UNCHANGED <<now, jobs, tenantTokens, tenantLastReset, allowed,
                   wpc, wjob, wretry, wlease, nreq, ctxDone, broadcasts>>

\* idempotency lookup: GetJobByIdempotencyKey; only `err == nil` returns the
\* existing job, so no row and a failed query (~ok) both fall through to insert
CheckIdempotency(h, ok) ==
    /\ rpc[h] = "idempotency"
    /\ IF rreq[h].IdempotencyKey # "" /\ ok
          /\ JobsByIdempotencyKey(rreq[h].IdempotencyKey) # {}
       THEN Respond(h, "existing")
       ELSE /\ rpc' = [rpc EXCEPT ![h] = "insert"]
            /\ UNCHANGED <<rreq, resp>>
    /\ UNCHANGED <<now, jobs, tenantTokens, tenantLastReset, allowed,
                   wpc, wjob, wretry, wlease, nreq, ctxDone, broadcasts>>

\* a connection holds a SHARED (or higher) lock on the database file
HoldsShared(w) == wpc[w] \in {"selected", "updated"}
\* a connection holds the RESERVED lock
HoldsReserved(w) == wpc[w] = "updated"

\* an autocommit write needs the EXCLUSIVE lock: no other connection may hold a lock
CanWrite == \A w \in Workers : ~HoldsShared(w)

\* `maxRetries == 0` defaults to 3
KeepMaxRetries(m) == m
EffectiveMaxRetries(m) == IF m = 0 THEN DefaultMaxRetries ELSE m

\* create the job, InsertJob, and Broadcast when the insert succeeded
InsertJob(h, ok, cap) ==
    /\ rpc[h] = "insert"
    /\ IF ok
       THEN /\ CanWrite
            /\ Len(jobs) < cap
            /\ jobs' = Append(jobs, NewJob(Len(jobs) + 1, rreq[h],
                                           EffectiveMaxRetries(rreq[h].MaxRetries)))
            /\ broadcasts' = Broadcast(broadcasts)
            /\ Respond(h, "created")
       ELSE /\ jobs' = jobs
            /\ broadcasts' = broadcasts
            /\ Respond(h, "internal_error")
    /\ UNCHANGED <<now, tenantTokens, tenantLastReset, allowed,
                   wpc, wjob, wretry, wlease, nreq, ctxDone>>

----------------------------------------------------------------------------
(* Worker: Start / processNextJob / LeaseJob *)

SetWorker(w, pc, j, r, l) ==
    /\ wpc' = [wpc EXCEPT ![w] = pc]
    /\ wjob' = [wjob EXCEPT ![w] = j]
    /\ wretry' = [wretry EXCEPT ![w] = r]
    /\ wlease' = [wlease EXCEPT ![w] = l]

\* the ticker fires: leaseUntil := now + 30 s, db.Begin(), now := time.Now()
\* (the two readings of the clock are taken as one)
Poll(w) ==
    /\ wpc[w] = "idle"
    /\ SetWorker(w, "begun", 0, 0, now + LeaseDuration)
    /\ UNCHANGED <<now, jobs, tenantTokens, tenantLastReset, allowed, rpc, rreq, resp, nreq, ctxDone, broadcasts>>

\* the `now` parameter of the SELECT, taken when the transaction began
TxNow(w) == wlease[w] - LeaseDuration

\* the SELECT of LeaseJob (takes the SHARED lock); sql.ErrNoRows ends the cycle
LeaseSelect(w) ==
    /\ wpc[w] = "begun"
    /\ IF EligibleJobs(TxNow(w)) = {}
       THEN SetWorker(w, "idle", 0, 0, 0)
       ELSE \E j \in FirstByCreatedAt(EligibleJobs(TxNow(w))) :
               SetWorker(w, "selected", j, jobs[j].retry_count, wlease[w])
    /\ UNCHANGED <<now, jobs, tenantTokens, tenantLastReset, allowed, rpc, rreq, resp, nreq, ctxDone, broadcasts>>

\* the RESERVED lock is free for connection w
ReservedFree(w) == \A v \in Workers \ {w} : ~HoldsReserved(v)

\* the UPDATE of LeaseJob (takes the RESERVED lock, or fails with SQLITE_BUSY)
LeaseUpdate(w) ==
    /\ wpc[w] = "selected"
    /\ IF ReservedFree(w)
       THEN SetWorker(w, "updated", wjob[w], wretry[w], wlease[w])
       ELSE SetWorker(w, "idle", 0, 0, 0)
    /\ UNCHANGED <<now, jobs, tenantTokens, tenantLastReset, allowed, rpc, rreq, resp, nreq, ctxDone, broadcasts>>

\* the EXCLUSIVE lock can be taken by connection w: no other reader
NoLocking(w) == TRUE
ExclusiveFree(w) == \A v \in Workers \ {w} : ~HoldsShared(v)

\* UPDATE jobs SET status = 'running', leased_until = ? WHERE id = ?
LeaseAllRows(j, leaseUntil) ==
    [k \in JobIds |-> [jobs[k] EXCEPT !.status = StatusRunning,
                                      !.leased_until = leaseUntil]]
LeaseRow(j, leaseUntil) ==
    [jobs EXCEPT ![j].status = StatusRunning, ![j].leased_until = leaseUntil]

\* tx.Commit(): the UPDATE becomes visible; a timeout waiting for readers fails it.
\* LeaseJob then returns the job and processNextJob calls onUpdate
LeaseCommit(w, ok) ==
    /\ wpc[w] = "updated"
    /\ IF ok
       THEN /\ ExclusiveFree(w)
            /\ jobs' = LeaseRow(wjob[w], wlease[w])
            /\ broadcasts' = Broadcast(broadcasts)
            /\ SetWorker(w, "exec", wjob[w], wretry[w], wlease[w])
       ELSE /\ ~ExclusiveFree(w)
            /\ jobs' = jobs
            /\ broadcasts' = broadcasts
            /\ SetWorker(w, "idle", 0, 0, 0)
    /\ UNCHANGED <<now, tenantTokens, tenantLastReset, allowed, rpc, rreq, resp, nreq, ctxDone>>

\* UpdateJobStatus(jobID, status, errorMsg)
UpdateJobStatusAndCount(j, status, errorMsg) ==
    [jobs EXCEPT ![j].status = status, ![j].leased_until = NULL,
                 ![j].retry_count = @ + 1,
                 ![j].error_message = nullString(errorMsg)]
UpdateJobStatusKeepMessage(j, status, errorMsg) ==
    [jobs EXCEPT ![j].status = status, ![j].leased_until = NULL]
UpdateJobStatus(j, status, errorMsg) ==
    [jobs EXCEPT ![j].status = status, ![j].leased_until = NULL,
                 ![j].error_message = nullString(errorMsg)]

\* UpdateJobForRetry(jobID, retryCount, errorMsg)
UpdateJobForRetryResetBudget(j, retryCount, errorMsg) ==
    [jobs EXCEPT ![j].status = StatusFailed, ![j].retry_count = retryCount,
                 ![j].max_retries = DefaultMaxRetries,
                 ![j].leased_until = NULL, ![j].error_message = errorMsg]
UpdateJobForRetryKeepLease(j, retryCount, errorMsg) ==
    [jobs EXCEPT ![j].status = StatusFailed, ![j].retry_count = retryCount,
                 ![j].error_message = errorMsg]
UpdateJobForRetry(j, retryCount, errorMsg) ==
    [jobs EXCEPT ![j].status = StatusFailed, ![j].retry_count = retryCount,
                 ![j].leased_until = NULL, ![j].error_message = errorMsg]

\* the table after the outcome write of processNextJob
OutcomeDropped(j, retryCount, success) == jobs
Outcome(j, retryCount, success) ==
    IF success THEN UpdateJobStatus(j, StatusDone, "")
    ELSE IF retryCount + 1 >= jobs[j].max_retries
    THEN UpdateJobStatus(j, StatusFailed, DLQMsg)
    ELSE UpdateJobForRetry(j, retryCount + 1, RetryMsg)

\* executeJob returns `success`, then the outcome is written (ok) or the write
\* fails; onUpdate is called in both cases
Finish(w, success, ok) ==
    /\ wpc[w] = "exec"
    /\ IF ok
       THEN /\ CanWrite
            /\ jobs' = Outcome(wjob[w], wretry[w], success)
       ELSE jobs' = jobs
    /\ broadcasts' = Broadcast(broadcasts)
    /\ SetWorker(w, "idle", 0, 0, 0)
    /\ UNCHANGED <<now, tenantTokens, tenantLastReset, allowed, rpc, rreq, resp, nreq, ctxDone>>

\* time passes, up to `limit` steps of the clock
Tick(limit) ==
    /\ now < limit * TickSeconds
    /\ now' = now + TickSeconds
    /\ UNCHANGED <<jobs, tenantTokens, tenantLastReset, allowed,
                   rpc, rreq, resp, wpc, wjob, wretry, wlease, nreq, ctxDone, broadcasts>>

\* the context passed to the workers is cancelled
Cancel ==
    /\ ~ctxDone
    /\ ctxDone' = TRUE
    /\ UNCHANGED <<now, jobs, tenantTokens, tenantLastReset, allowed,
                   rpc, rreq, resp, wpc, wjob, wretry, wlease, nreq, broadcasts>>

\* worker w is at the select of Start's loop, between two poll cycles
AnyPosition(w) == wpc[w] # "stopped"
TickerOnly(w) == FALSE
AtSelect(w) == wpc[w] = "idle"

\* `case <-w.ctx.Done(): return`
Shutdown(w) ==
    /\ AtSelect(w)
    /\ ctxDone
    /\ wpc' = [wpc EXCEPT ![w] = "stopped"]
    /\ UNCHANGED <<now, jobs, tenantTokens, tenantLastReset, allowed,
                   rpc, rreq, resp, wjob, wretry, wlease, nreq, ctxDone, broadcasts>>

----------------------------------------------------------------------------
Init ==
    /\ now = 0
    /\ jobs = <<>>
    /\ tenantTokens = <<>>
    /\ tenantLastReset = <<>>
    /\ allowed = <<>>
    /\ rpc = [h \in Handlers |-> "idle"]
    /\ rreq = [h \in Handlers |-> NoReq]
    /\ resp = [h \in Handlers |-> "none"]
    /\ wpc = [w \in Workers |-> "idle"]
    /\ wjob = [w \in Workers |-> 0]
    /\ wretry = [w \in Workers |-> 0]
    /\ wlease = [w \in Workers |-> 0]
    /\ nreq = 0
    /\ ctxDone = FALSE
    /\ broadcasts = 0

\* the steps of the HTTP handlers H, with request fields drawn from T, P, K, M;
\* a new request arrives only while `more` holds
Submissions(H, T, P, K, M, cap, more) ==
    \/ (more /\ \E h \in H : SubmitJob(h, T, P, K, M))
    \/ \E h \in H, ok \in BOOLEAN : CheckQuota(h, ok)
    \/ \E h \in H, ok \in BOOLEAN : CheckIdempotency(h, ok)
    \/ \E h \in H, ok \in BOOLEAN : InsertJob(h, ok, cap)

\* the steps of the workers W, with the executor's results drawn from Results
Processing(W, Results) ==
    \/ \E w \in W : Poll(w)
    \/ \E w \in W : LeaseSelect(w)
    \/ \E w \in W : LeaseUpdate(w)
    \/ \E w \in W, ok \in BOOLEAN : LeaseCommit(w, ok)
    \/ \E w \in W, success \in Results, ok \in BOOLEAN : Finish(w, success, ok)

\* the whole server: at most MaxSubmits requests of one tenant, two workers
Next ==
    \/ Tick(MaxTicks)
    \/ Submissions({1}, {"t1"}, {"p"}, {""}, {-1, 1, 2}, MaxJobs, nreq < MaxSubmits)
    \/ Processing(Workers, BOOLEAN)

Spec == Init /\ [][Next]_vars

\* the submission path alone: two concurrent handlers, any number of requests
NextSubmit ==
    \/ Tick(WindowTicks)
    \/ Submissions(Handlers, {"", "t1"}, {"", "p"}, {"", "k1"}, {0}, MaxJobs, TRUE)

SpecSubmit == Init /\ [][NextSubmit]_vars

\* one tenant, one handler and one worker, with room for QuotaJobs jobs
NextQuota ==
    \/ Submissions({1}, {"t1"}, {"p"}, {""}, {0}, QuotaJobs, TRUE)
    \/ Processing({1}, {TRUE})

SpecQuota == Init /\ [][NextQuota]_vars

\* two concurrent handlers receiving valid and invalid requests, one worker
NextReject ==
    \/ Submissions(Handlers, {"", "t1"}, {"", "p"}, {""}, {0}, QuotaJobs, TRUE)
    \/ Processing({1}, {TRUE})

SpecReject == Init /\ [][NextReject]_vars

\* one handler whose requests all carry the same idempotency key (some of
\* them invalid), one worker
NextAdmission ==
    \/ Submissions({1}, {"", "t1"}, {"p"}, {"k1"}, {0}, QuotaJobs, TRUE)
    \/ Processing({1}, {TRUE})

SpecAdmission == Init /\ [][NextAdmission]_vars

\* two tenants submitting through two concurrent handlers
NextTenants ==
    \/ Submissions(Handlers, {"t1", "t2"}, {"p"}, {""}, {0}, LiveJobs, TRUE)

SpecTenants == Init /\ [][NextTenants]_vars

\* the steps of the workers W when no store operation fails
Reliable(W, Results) ==
    \/ \E w \in W : Poll(w)
    \/ \E w \in W : LeaseSelect(w)
    \/ \E w \in W : LeaseUpdate(w)
    \/ \E w \in W : LeaseCommit(w, TRUE)
    \/ \E w \in W, success \in Results : Finish(w, success, TRUE)

\* at most MaxSubmits requests of two tenants, with and without idempotency
\* key and max_retries
NextAccept ==
    \/ Tick(MaxTicks)
    \/ Submissions(Handlers, {"t1", "t2"}, {"p"}, {"", "k1"}, {0, 2}, MaxJobs,
                   nreq < MaxSubmits)

SpecAccept == Init /\ [][NextAccept]_vars

\* one handler resubmitting the same idempotency key, two workers
NextDuplicate ==
    \/ Tick(MaxTicks)
    \/ Submissions({1}, {"t1"}, {"p"}, {"k1"}, {2}, MaxJobs, nreq < MaxSubmits)
    \/ Processing(Workers, BOOLEAN)

SpecDuplicate == Init /\ [][NextDuplicate]_vars

\* more jobs than workers, no store failures
NextPool ==
    \/ Tick(MaxTicks)
    \/ Submissions({1}, {"t1"}, {"p"}, {""}, {1}, PoolJobs, Len(jobs) < PoolJobs)
    \/ Reliable(Workers, BOOLEAN)

SpecPool == Init /\ [][NextPool]_vars

\* one job with max_retries 1, two workers, no store failures
NextLive ==
    \/ Tick(MaxTicks)
    \/ Submissions({1}, {"t1"}, {"p"}, {""}, {1}, LiveJobs, nreq < MaxSubmits)
    \/ Reliable(Workers, BOOLEAN)

\* every poller is scheduled fairly: its ticker fires and its calls return
\* (a call that waits for a lock gets it when the lock is free again and again)
Fairness == \A w \in Workers : SF_vars(Reliable({w}, BOOLEAN))

SpecLive == Init /\ [][NextLive]_vars /\ Fairness

\* the workers with cancellation of their context
NextShutdown ==
    \/ Cancel
    \/ \E w \in Workers : Shutdown(w)
    \/ Submissions({1}, {"t1"}, {"p"}, {""}, {1}, LiveJobs, nreq < MaxSubmits)
    \/ Processing(Workers, BOOLEAN)

SpecShutdown == Init /\ [][NextShutdown]_vars

\* every call a worker makes returns (the ticker fires, the store answers or
\* fails, the executor returns), and the select, which picks at random among
\* its ready cases, does not pick the ticker for ever once ctx.Done() is ready
ShutdownFairness ==
    \A w \in Workers :
        /\ WF_vars(Processing({w}, BOOLEAN))
        /\ SF_vars(Shutdown(w))

SpecShutdownFair == Init /\ [][NextShutdown]_vars /\ ShutdownFairness

----------------------------------------------------------------------------
(* Claims *)

\* worker w is inside the transaction of LeaseJob, between SELECT and COMMIT
InLeaseTx(w) == wpc[w] \in {"selected", "updated"}

\* the step is the successful COMMIT of worker w's LeaseJob
LeaseReturns(w) == wpc[w] = "updated" /\ wpc'[w] = "exec"

\* C1: at-most-one active lease.  When the LeaseJob transactions of two workers
\* overlap and both SELECTs returned the same job, no COMMIT succeeds while the
\* other transaction is still open: the first of the two to end fails, so at
\* most one of the two calls returns the job.
C1_AtMostOneLease ==
    [][\A w \in Workers : LeaseReturns(w) =>
          \A v \in Workers \ {w} : ~(InLeaseTx(v) /\ wjob[v] = wjob[w])]_vars

\* C1 witness: two workers race, both SELECTs returned the same job and one of
\* them has already run its UPDATE
C1_Witness ==
    \E w, v \in Workers :
        /\ w # v
        /\ wpc[w] = "updated" /\ wpc[v] = "selected"
        /\ wjob[w] = wjob[v]

\* C2 (as claimed): at most one job row exists for each non-empty idempotency key
C2_KeyUnique ==
    \A j, k \in JobIds :
        (jobs[j].idempotency_key # "NULL"
         /\ jobs[j].idempotency_key = jobs[k].idempotency_key) => j = k

\* handler h takes a request through the rate gate in this step
PassesRateGate(h) == rpc[h] = "idle" /\ rpc'[h] = "quota"

\* C3 (as claimed): a submission whose idempotency key matches an existing job
\* runs no admission check, so it consumes no rate token
C3_DuplicateSkipsAdmission ==
    [][\A h \in Handlers :
          (PassesRateGate(h)
           /\ JobsByIdempotencyKey(rreq'[h].IdempotencyKey) # {})
          => tenantTokens' = tenantTokens]_vars

\* C4 (as claimed): the persisted retry_count never exceeds the persisted
\* max_retries, whatever max_retries value was submitted
C4_RetryBounded ==
    \A j \in JobIds : jobs[j].retry_count <= jobs[j].max_retries

\* the last outcome written for job j is the dead-letter write of processNextJob
DeadLettered(j) ==
    jobs[j].status = StatusFailed /\ jobs[j].error_message = DLQMsg

\* C5 (as claimed): once the dead-letter branch has been written for a job, no
\* LeaseJob call returns that job
C5_DeadLetterExcluded ==
    [][\A w \in Workers : LeaseReturns(w) => ~DeadLettered(wjob[w])]_vars

\* C6 (as claimed): a job with max_retries = m >= 1 whose failures ended in the
\* dead-letter write has retry_count = m and is counted by DLQJobs, not by
\* FailedJobs
C6_RetryScenario ==
    \A j \in JobIds :
        (DeadLettered(j) /\ jobs[j].max_retries >= 1) =>
            /\ jobs[j].retry_count = jobs[j].max_retries
            /\ IsDLQJob(j)
            /\ ~IsFailedJob(j)

\* C7: FIFO claim order.  The job a LeaseJob transaction selected has the
\* smallest created_at among all jobs eligible for that call; the table cannot
\* change while the transaction is open, so this is the job the call returns.
C7_FifoClaim ==
    \A w \in Workers : InLeaseTx(w) =>
        /\ wjob[w] \in EligibleJobs(TxNow(w))
        /\ \A k \in EligibleJobs(TxNow(w)) :
              jobs[wjob[w]].created_at <= jobs[k].created_at

\* C7 witness: a transaction selected a job while a younger job was eligible too
C7_Witness ==
    \E w \in Workers : \E k \in JobIds :
        /\ InLeaseTx(w)
        /\ k \in EligibleJobs(TxNow(w))
        /\ jobs[wjob[w]].created_at < jobs[k].created_at

\* C8: rate gate bound.  Within one window of a tenant Allow has returned true
\* at most maxJobsPerMin times, and once it has, the next call in the same window
\* returns false; a handler whose Allow call returned false answers 429 and
\* goes no further.
C8_RateGateBound ==
    \A t \in DOMAIN allowed :
        /\ allowed[t] <= maxJobsPerMin
        /\ (allowed[t] = maxJobsPerMin /\ ~WindowElapsed(t)) => ~AllowResult(t)

\* C8 witness: a tenant has used its 10 tokens in the window still running and a
\* submission has been answered with the rate-limit rejection
C8_Witness ==
    \E t \in DOMAIN allowed :
        /\ allowed[t] = maxJobsPerMin
        /\ ~WindowElapsed(t)
        /\ \E h \in Handlers : resp[h] = "rate_limited"

\* C9: lazy window reset.  For a tenant the limiter knows: once the window has
\* elapsed the next Allow call returns true, and a step that changes the
\* tenant's tokens or window start either is that call (tokens become N - 1,
\* the window restarts now) or consumes one token inside the window.
C9_LazyReset ==
    [][\A t \in DOMAIN tenantLastReset :
          /\ (now - tenantLastReset[t] > Minute) => AllowResult(t)
          /\ (tenantTokens'[t] # tenantTokens[t]
              \/ tenantLastReset'[t] # tenantLastReset[t])
             => IF now - tenantLastReset[t] > Minute
                THEN /\ tenantTokens'[t] = maxJobsPerMin - 1
                     /\ tenantLastReset'[t] = now
                ELSE /\ tenantTokens'[t] = tenantTokens[t] - 1
                     /\ tenantLastReset'[t] = tenantLastReset[t]]_vars

\* C9 witness: after a rate-limit rejection the window was restarted by a later
\* call, which was accepted
C9_Witness ==
    \E t \in DOMAIN tenantLastReset :
        /\ tenantLastReset[t] > Minute
        /\ tenantTokens[t] = maxJobsPerMin - 1
        /\ \E h \in Handlers : resp[h] = "rate_limited"
        /\ \E h \in Handlers : rpc[h] = "quota" /\ rreq[h].TenantID = t

\* handler h runs the concurrency gate in this step
RunsQuotaGate(h) == rpc[h] = "quota" /\ rpc'[h] # "quota"

\* C10: concurrency gate.  When the running count is read for a tenant with 5
\* or more Running jobs the submission ends with the quota rejection and no job
\* is inserted; with fewer than 5 the gate does not reject.  (A failed count
\* query ends the request with an internal error instead.)
C10_ConcurrencyGate ==
    [][\A h \in Handlers :
          (RunsQuotaGate(h) /\ resp'[h] # "internal_error") =>
              IF GetRunningJobsCount(rreq[h].TenantID) >= MaxConcurrent
              THEN /\ resp'[h] = "quota_exceeded"
                   /\ rpc'[h] = "idle"
                   /\ jobs' = jobs
              ELSE /\ resp'[h] # "quota_exceeded"
                   /\ rpc'[h] = "idempotency"]_vars

\* C10 witness: a submission was rejected by the concurrency gate while its
\* tenant has 5 Running jobs
C10_Witness ==
    \E h \in Handlers :
        /\ resp[h] = "quota_exceeded"
        /\ GetRunningJobsCount("t1") >= MaxConcurrent

\* the responses of a rejected submission: 400 and the two 429s
Rejections == {"bad_request", "rate_limited", "quota_exceeded"}

\* the step ends handler h's SubmitJob call with a rejection
RejectionStep(h) ==
    /\ resp'[h] \in Rejections
    /\ rpc[h] \in {"idle", "quota"}
    /\ (rpc'[h] # rpc[h] \/ resp'[h] # resp[h])

\* C15: a rejected submission creates nothing.  The step in which SubmitJob
\* answers a validation error, a rate-limit rejection or a quota rejection
\* leaves the jobs table as it was and ends the call; a call that is still on
\* its way to the insert has written no response and carries a valid request.
C15_RejectionCreatesNothing ==
    /\ [](\A h \in Handlers :
             rpc[h] \in {"quota", "idempotency", "insert"} =>
                 /\ resp[h] = "none"
                 /\ rreq[h].TenantID # "" /\ rreq[h].Payload # "")
    /\ [][\A h \in Handlers :
             RejectionStep(h) =>
                 /\ jobs' = jobs
                 /\ rpc'[h] = "idle"
                 /\ rreq'[h] = NoReq]_vars

\* C15 witness: with jobs in the table, one submission was rejected by the
\* concurrency gate and another by validation
C15_Witness ==
    \E h, g \in Handlers :
        /\ resp[h] = "quota_exceeded"
        /\ resp[g] = "bad_request"
        /\ Len(jobs) = QuotaJobs

\* the Running jobs whose lease ran out before time t
ExpiredJobs(t) ==
    {j \in JobIds : jobs[j].status = StatusRunning /\ jobs[j].leased_until # NULL
                    /\ jobs[j].leased_until < t}

\* the step ends worker w's cycle after the executor returned
EndsCycle(w) == wpc[w] = "exec" /\ wpc'[w] = "idle"

\* C11: lease expiry reclaim.  A LeaseJob call finds no row only if no Running
\* job's lease has run out; the claim of a job (first or again) leaves its
\* retry_count as it was; and retry_count changes only in the retry write of a
\* worker that executed the job, which stores that worker's count plus one.
C11_LeaseExpiryReclaim ==
    [][\A w \in Workers :
          /\ (wpc[w] = "begun" /\ wpc'[w] = "idle") => ExpiredJobs(TxNow(w)) = {}
          /\ LeaseReturns(w) =>
                jobs'[wjob[w]].retry_count = jobs[wjob[w]].retry_count
          /\ \A j \in JobIds :
                jobs'[j].retry_count # jobs[j].retry_count =>
                    \E v \in Workers :
                        /\ EndsCycle(v) /\ wjob[v] = j
                        /\ jobs'[j].status = StatusFailed
                        /\ jobs'[j].error_message = RetryMsg
                        /\ jobs'[j].retry_count = wretry[v] + 1]_vars

\* C11 witness: a job was claimed again after its lease expired, while the
\* first worker is still executing it, and its retry_count is still 0
C11_Witness ==
    \E w, v \in Workers :
        /\ w # v
        /\ wpc[w] = "exec" /\ wpc[v] = "exec"
        /\ wjob[w] = wjob[v]
        /\ jobs[wjob[w]].status = StatusRunning
        /\ jobs[wjob[w]].retry_count = 0

\* C12 (as claimed): once a job's persisted status is Done it stays Done and no
\* LeaseJob call returns the job
C12_DoneTerminal ==
    [][\A j \in JobIds :
          jobs[j].status = StatusDone =>
              /\ jobs'[j].status = StatusDone
              /\ \A w \in Workers : LeaseReturns(w) => wjob[w] # j]_vars

\* the status changes of the state machine
LegalTransition(from, to, j) ==
    \/ from = StatusPending /\ to = StatusRunning
    \/ from = StatusRunning /\ to \in {StatusDone, StatusFailed}
    \/ from = StatusFailed /\ to = StatusRunning
       /\ jobs[j].retry_count < jobs[j].max_retries

\* C13 (as claimed): every change of a job's persisted status is a transition
\* of the state machine; an outcome (Done or Failed) is written only over
\* Running
C13_StateMachine ==
    [][\A j \in JobIds :
          jobs'[j].status # jobs[j].status =>
              LegalTransition(jobs[j].status, jobs'[j].status, j)]_vars

\* C14: lease field invariant.  For every job leased_until is set if and only
\* if the persisted status is Running.
C14_LeaseField ==
    \A j \in JobIds :
        (jobs[j].leased_until # NULL) <=> (jobs[j].status = StatusRunning)

\* C14 witness: one job is Running under a lease while another, written back
\* for retry after a failure, carries no lease
C14_Witness ==
    \E j, k \in JobIds :
        /\ jobs[j].status = StatusRunning /\ jobs[j].leased_until # NULL
        /\ jobs[k].status = StatusFailed /\ jobs[k].error_message = RetryMsg
        /\ jobs[k].leased_until = NULL

\* job j has reached a terminal state: Done, or Failed with its budget used up
Terminal(j) ==
    \/ jobs[j].status = StatusDone
    \/ (jobs[j].status = StatusFailed /\ jobs[j].retry_count >= jobs[j].max_retries)

\* C16 (as claimed): with fair pollers and no store failures every accepted
\* job eventually reaches a terminal state and stays there (it is not claimed
\* again), also when the executor fails every time
C16_EventuallyTerminal ==
    \A j \in 1..LiveJobs : (j \in JobIds) ~> [](j \in JobIds /\ Terminal(j))

\* C17: cooperative shutdown.  A worker stops only from the select between
\* two poll cycles and only after the context was cancelled; a worker inside
\* LeaseJob does not stop, and a worker that has claimed a job leaves the
\* execution only through the outcome write, back to the select.
C17_CooperativeShutdown ==
    [][\A w \in Workers :
          /\ (wpc'[w] = "stopped" /\ wpc[w] # "stopped") =>
                (wpc[w] = "idle" /\ ctxDone /\ jobs' = jobs)
          /\ (wpc[w] = "exec" /\ wpc'[w] # "exec") => wpc'[w] = "idle"]_vars

\* C17 witness: the context was cancelled while a worker is executing a
\* claimed job; another worker has already stopped
C17_Witness ==
    /\ ctxDone
    /\ \E w, v \in Workers :
          /\ wpc[w] = "stopped"
          /\ wpc[v] = "exec"
          /\ jobs[wjob[v]].status = StatusRunning

\* C18 (as claimed): a retry write that changes the job's row leaves it Failed,
\* without lease, eligible, and with the previous persisted retry_count plus one
C18_RetryAddsOne ==
    [][\A w \in Workers :
          (EndsCycle(w) /\ jobs'[wjob[w]] # jobs[wjob[w]]
           /\ jobs'[wjob[w]].error_message = RetryMsg) =>
              /\ jobs'[wjob[w]].status = StatusFailed
              /\ jobs'[wjob[w]].leased_until = NULL
              /\ jobs'[wjob[w]].retry_count < jobs'[wjob[w]].max_retries
              /\ jobs'[wjob[w]].retry_count = jobs[wjob[w]].retry_count + 1]_vars

\* C19: success step.  The write of a successful execution leaves the job
\* Done, without leased_until, with no error_message, and with the
\* retry_count it had before the write.
C19_SuccessStep ==
    [][\A w \in Workers :
          (EndsCycle(w) /\ jobs'[wjob[w]] # jobs[wjob[w]]
           /\ jobs'[wjob[w]].status = StatusDone) =>
              /\ jobs'[wjob[w]].leased_until = NULL
              /\ jobs'[wjob[w]].error_message = "NULL"
              /\ jobs'[wjob[w]].retry_count = jobs[wjob[w]].retry_count]_vars

\* C19 witness: a job that had failed once (and carried the retry message) was
\* executed again with success
C19_Witness ==
    \E j \in JobIds :
        /\ jobs[j].status = StatusDone
        /\ jobs[j].retry_count = 1
        /\ jobs[j].error_message = "NULL"

\* the row of worker w's job is what w's claim wrote: Running, w's lease, and
\* the retry_count w read
AsClaimed(w) ==
    /\ jobs[wjob[w]].status = StatusRunning
    /\ jobs[wjob[w]].leased_until = wlease[w]
    /\ jobs[wjob[w]].retry_count = wretry[w]

LeaseFails(w) == wpc[w] \in {"begun", "selected", "updated"} /\ wpc'[w] = "idle"

\* C21: claim eligibility.  The job a LeaseJob call returns is, when the call
\* commits, Pending, or Running with leased_until before the call's now, or
\* Failed with retry_count < max_retries: not Done, not Failed with the budget
\* used up, not Running under a lease that has not expired.  A call that finds
\* no row had no eligible job, and a call that returns no job changes no row.
C21_ClaimEligibility ==
    [][\A w \in Workers :
          /\ LeaseReturns(w) =>
                /\ \/ jobs[wjob[w]].status = StatusPending
                   \/ (jobs[wjob[w]].status = StatusRunning
                       /\ jobs[wjob[w]].leased_until < TxNow(w))
                   \/ (jobs[wjob[w]].status = StatusFailed
                       /\ jobs[wjob[w]].retry_count < jobs[wjob[w]].max_retries)
                /\ jobs[wjob[w]].status # StatusDone
                /\ ~IsDLQJob(wjob[w])
                /\ ~(jobs[wjob[w]].status = StatusRunning
                     /\ jobs[wjob[w]].leased_until >= TxNow(w))
          /\ (wpc[w] = "begun" /\ wpc'[w] = "idle") =>
                \A j \in JobIds :
                    \/ jobs[j].status = StatusDone
                    \/ IsDLQJob(j)
                    \/ (jobs[j].status = StatusRunning
                        /\ jobs[j].leased_until >= TxNow(w))
          /\ LeaseFails(w) => jobs' = jobs]_vars

\* C21 witness: a worker was given a job while an older job is Done and
\* therefore was passed over
C21_Witness ==
    \E w \in Workers : \E k \in JobIds :
        /\ wpc[w] = "exec"
        /\ k # wjob[w]
        /\ jobs[k].status = StatusDone
        /\ jobs[k].created_at <= jobs[wjob[w]].created_at
        /\ jobs[wjob[w]].status = StatusRunning

\* C22: claim effect.  The commit of LeaseJob(leaseUntil) leaves the returned
\* job Running with leased_until = leaseUntil, its other fields as the SELECT
\* of the same transaction read them, and every other row unchanged.
C22_ClaimEffect ==
    [][\A w \in Workers :
          LeaseReturns(w) =>
              /\ jobs'[wjob[w]].status = StatusRunning
              /\ jobs'[wjob[w]].leased_until = wlease[w]
              /\ jobs'[wjob[w]].retry_count = wretry[w]
              /\ jobs' = [jobs EXCEPT ![wjob[w]] = jobs'[wjob[w]]]
              /\ wjob'[w] = wjob[w]]_vars

\* C22 witness: a worker holds a claimed job, Running until the worker's
\* leaseUntil, while the other job is still Pending
C22_Witness ==
    \E w \in Workers : \E k \in JobIds :
        /\ wpc[w] = "exec"
        /\ jobs[wjob[w]].status = StatusRunning
        /\ jobs[wjob[w]].leased_until = wlease[w]
        /\ k # wjob[w]
        /\ jobs[k].status = StatusPending

\* the fields of a job row that are set at creation only
Immutable(row) ==
    <<row.id, row.tenant_id, row.payload, row.idempotency_key,
      row.max_retries, row.trace_id, row.created_at>>

\* C24: immutable fields and no deletion.  Every step keeps every existing row
\* in the table, with its id, tenant_id, payload, idempotency_key, max_retries,
\* trace_id and created_at unchanged.
C24_ImmutableFields ==
    [][\A j \in JobIds :
          /\ j \in DOMAIN jobs'
          /\ Immutable(jobs'[j]) = Immutable(jobs[j])]_vars

\* C24 witness: a job has been claimed, has failed and been written back for
\* retry, and has been claimed again; a submission with its idempotency key
\* was answered with the existing job
C24_Witness ==
    \E j \in JobIds :
        /\ jobs[j].status = StatusRunning
        /\ jobs[j].retry_count = 1
        /\ jobs[j].idempotency_key = "k1"
        /\ resp[1] = "existing"

\* C30: metrics partition.  Over one state of the table FailedJobs is the
\* number of Failed rows with retry_count < max_retries, DLQJobs the number of
\* Failed rows with retry_count >= max_retries, and TotalJobs is the sum of
\* PendingJobs, RunningJobs, CompletedJobs, FailedJobs and DLQJobs.
C30_MetricsPartition ==
    /\ FailedJobs = Cardinality({j \in JobIds : jobs[j].status = StatusFailed
                                    /\ jobs[j].retry_count < jobs[j].max_retries})
    /\ DLQJobs = Cardinality({j \in JobIds : jobs[j].status = StatusFailed
                                 /\ ~(jobs[j].retry_count < jobs[j].max_retries)})
    /\ TotalJobs = PendingJobs + RunningJobs + CompletedJobs + FailedJobs + DLQJobs

\* C30 witness: the table holds a Failed job that can still be retried and a
\* Failed job whose retry_count has reached max_retries
C30_Witness ==
    /\ FailedJobs = 1
    /\ DLQJobs = 1
    /\ TotalJobs = 2

\* the step is the successful insert of handler h's SubmitJob call
AcceptStep(h) == rpc[h] = "insert" /\ resp'[h] = "created"

\* C23: accepted submission.  The table grows only by the insert of a call
\* that passed validation, both gates and the idempotency lookup, and that
\* insert appends exactly one row: Pending, retry_count 0, no leased_until,
\* the request's tenant_id, payload and idempotency_key, and max_retries as
\* requested, or 3 when the request says 0 or nothing.
C23_AcceptedSubmission ==
    [][/\ \A h \in Handlers :
             AcceptStep(h) =>
                 /\ Len(jobs') = Len(jobs) + 1
                 /\ \A j \in JobIds : jobs'[j] = jobs[j]
                 /\ LET row == jobs'[Len(jobs')]
                    IN  /\ row.status = StatusPending
                        /\ row.retry_count = 0
                        /\ row.leased_until = NULL
                        /\ row.tenant_id = rreq[h].TenantID
                        /\ row.payload = rreq[h].Payload
                        /\ row.idempotency_key =
                              (IF rreq[h].IdempotencyKey = "" THEN "NULL"
                               ELSE rreq[h].IdempotencyKey)
                        /\ row.max_retries =
                              (IF rreq[h].MaxRetries = 0 THEN 3
                               ELSE rreq[h].MaxRetries)
       /\ Len(jobs') # Len(jobs) => \E h \in Handlers : AcceptStep(h)]_vars

\* C23 witness: one accepted request asked for no max_retries and carried an
\* idempotency key, another asked for max_retries 2 without a key
C23_Witness ==
    \E j, k \in JobIds :
        /\ jobs[j].max_retries = 3 /\ jobs[j].idempotency_key = "k1"
        /\ jobs[k].max_retries = 2 /\ jobs[k].idempotency_key = "NULL"
        /\ jobs[j].tenant_id # jobs[k].tenant_id

\* the step triggers a broadcast
Broadcasts == broadcasts' # broadcasts

\* C25: change broadcast.  The insert of an accepted submission, the return of
\* a claimed job and the end of a worker's outcome handling each trigger a
\* broadcast, and nothing else does: not a rejected submission, not one that
\* returns the existing job, not a failed insert.
C25_ChangeBroadcast ==
    [][/\ \A h \in Handlers : AcceptStep(h) => Broadcasts
       /\ \A w \in Workers : LeaseReturns(w) => Broadcasts
       /\ \A w \in Workers : EndsCycle(w) => Broadcasts
       /\ \A h \in Handlers :
             (rpc'[h] = "idle" /\ resp'[h] # "created"
              /\ (rpc[h] # "idle" \/ resp'[h] # resp[h])) => ~Broadcasts
       /\ Broadcasts =>
             \/ \E h \in Handlers : AcceptStep(h)
             \/ \E w \in Workers : LeaseReturns(w) \/ EndsCycle(w)]_vars

\* C25 witness: a job was inserted, claimed and completed (three broadcasts)
\* and a later submission with its key was answered with the existing job
C25_Witness ==
    /\ Len(jobs) = 1
    /\ jobs[1].status = StatusDone
    /\ resp[1] = "existing"
    /\ broadcasts = 1

\* the limiter's entry for tenant u: its token count and its window start
Entry(tokens, resets, u) ==
    <<IF u \in DOMAIN tokens THEN tokens[u] ELSE NULL,
      IF u \in DOMAIN resets THEN resets[u] ELSE NULL>>

\* C26: rate gate tenant isolation.  A submission of tenant t that passes the
\* rate gate changes only t's entry, no step changes the entries of two
\* tenants, and a submission is rate limited only if some tenant has no token
\* left in its running window.
C26_TenantIsolation ==
    [][/\ \A h \in Handlers :
             PassesRateGate(h) =>
                 \A u \in {"t1", "t2"} \ {rreq'[h].TenantID} :
                     Entry(tenantTokens', tenantLastReset', u)
                         = Entry(tenantTokens, tenantLastReset, u)
       /\ \A t, u \in {"t1", "t2"} :
             (t # u /\ Entry(tenantTokens', tenantLastReset', t)
                          # Entry(tenantTokens, tenantLastReset, t))
             => Entry(tenantTokens', tenantLastReset', u)
                    = Entry(tenantTokens, tenantLastReset, u)
       /\ \A h \in Handlers :
             (rpc[h] = "idle" /\ resp'[h] = "rate_limited"
              /\ resp[h] # "rate_limited") =>
                 \E t \in DOMAIN tenantTokens :
                     tenantTokens[t] = 0 /\ ~WindowElapsed(t)]_vars

\* C26 witness: tenant t1 has used up its tokens and was rate limited, and a
\* submission of tenant t2 has passed the rate gate after that
C26_Witness ==
    /\ "t1" \in DOMAIN tenantTokens /\ tenantTokens["t1"] = 0
    /\ \E h, g \in Handlers :
          /\ resp[g] = "rate_limited"
          /\ rpc[h] = "quota" /\ rreq[h].TenantID = "t2"
          /\ tenantTokens["t2"] = maxJobsPerMin - 1

\* C27: rate token bounds.  Every tenant's token count is between 0 and
\* maxJobsPerMin, also with two handlers calling Allow concurrently, and an
\* Allow call that returns false leaves the token count at 0.
C27_TokenBounds ==
    /\ [](\A t \in DOMAIN tenantTokens :
             tenantTokens[t] >= 0 /\ tenantTokens[t] <= maxJobsPerMin)
    /\ [][\A h \in Handlers :
             (rpc[h] = "idle" /\ resp'[h] = "rate_limited"
              /\ resp[h] # "rate_limited") =>
                 /\ tenantTokens' = tenantTokens
                 /\ tenantTokens'["t1"] = 0]_vars

\* C27 witness: both handlers were refused by the rate gate, the tenant's
\* tokens being 0
C27_Witness ==
    /\ "t1" \in DOMAIN tenantTokens /\ tenantTokens["t1"] = 0
    /\ \A h \in Handlers : resp[h] = "rate_limited" /\ rpc[h] = "idle"

\* C28: token consumption order.  The step that takes a valid request through
\* the rate gate takes one token from its tenant; the later steps of the call
\* (concurrency gate, idempotency lookup, insert), whatever their result, give
\* none back; a request that fails validation leaves the tokens alone.
C28_TokenOrder ==
    [][\A h \in Handlers :
          /\ PassesRateGate(h) =>
                tenantTokens'[rreq'[h].TenantID]
                    = TokensAfterReset(rreq'[h].TenantID) - 1
          /\ (rpc[h] \in {"quota", "idempotency", "insert"} /\ rpc'[h] # rpc[h])
                => tenantTokens' = tenantTokens
          /\ (rpc[h] = "idle" /\ resp'[h] = "bad_request")
                => tenantTokens' = tenantTokens]_vars

\* C28 witness: a submission was rejected by the concurrency gate, and more
\* tokens are gone than jobs were created
C28_Witness ==
    /\ resp[1] = "quota_exceeded"
    /\ "t1" \in DOMAIN tenantTokens
    /\ tenantTokens["t1"] < maxJobsPerMin - Len(jobs) - 1

C31_ShutdownLiveness ==
    /\ ctxDone ~> (\A w \in Workers : wpc[w] = "stopped")
    /\ [][\A w \in Workers :
             wpc[w] = "stopped" =>
                 /\ wpc'[w] = "stopped"
                 /\ wjob[w] = 0 /\ wjob'[w] = 0]_vars

\* C31 witness: every worker has stopped after the cancellation while a job
\* is still waiting to be claimed
C31_Witness ==
    /\ ctxDone
    /\ \A w \in Workers : wpc[w] = "stopped"
    /\ \E j \in JobIds : jobs[j].status = StatusPending

====
